---------------------------- MODULE Spec2Model ----------------------------
(***************************************************************************)
(* DCF77 decoder (dcf77decoder.py): the run-length segmenter               *)
(* (runlength_encode, driven by listen), the bit classifier and frame      *)
(* accumulator (handle_runlength) and the frame decoder (decodeCdf and its *)
(* parse and parity helpers).                                              *)
(*                                                                         *)
(* Python lists are 0-indexed, TLA+ sequences 1-indexed: At(d, i) is the   *)
(* Python d[i], and every position named below is a Python position.       *)
(* A Python exception is a value: Raise(msg) is a raised ValueError, NoExc *)
(* is normal completion.  Lines written to stdout are values as well.      *)
(***************************************************************************)
EXTENDS Integers, Sequences, FiniteSets, TLC

VARIABLES
    sample_rate,   \* self.sample_rate
    network_buf,   \* self.network_buf
    start_level,   \* self.start_level
    decoded,       \* self.decoded, the bit buffer
    crashed,       \* an exception left listen(): the process is dead
    calls,         \* number of operations performed so far
    delivered,     \* history: every sample receive() returned, in order
    decoded0,      \* history: the bit buffer at the initial state
    runs,          \* history: every handle_runlength invocation, in order
    last,          \* history: the last runlength_encode call
    outcome,       \* history: the results of direct decodeCdf calls
    pc             \* where a runlength_encode call followed step by step is

vars == << sample_rate, network_buf, start_level, decoded, crashed, calls,
           delivered, decoded0, runs, last, outcome, pc >>

----------------------------------------------------------------------------
(* Bounds of the model.                                                    *)

\* longest chunk of samples one receive() returns, beside the sync chunk
MaxChunk == 2
\* number of listen iterations in a behaviour
MaxCalls == 3
\* sample rate of the streaming specification
StreamRate == 7
\* largest sample rate of the classifier specification
MaxRate == 21
\* number of direct handle_runlength calls in a behaviour
MaxHandleCalls == 1
\* longest buffer of a runlength_encode call followed step by step
MaxBuf == 4

\* number of bits by which a frame differs from a base frame
MaxFlips == 2
\* number of direct decodeCdf calls in a behaviour
MaxDecodeCalls == 2

----------------------------------------------------------------------------
(* Python values.                                                          *)

FrameLen == 59

NoExc == [type |-> "none", msg |-> ""]

Raise(msg) == [type |-> "ValueError", msg |-> msg]

\* d[i]
At(d, i) == d[i + 1]

\* d[lo:hi] for 0 <= lo <= hi
Slice(d, lo, hi) ==
    IF lo >= Len(d) THEN << >>
    ELSE SubSeq(d, lo + 1, IF hi > Len(d) THEN Len(d) ELSE hi)

\* d[n:]
SliceFrom(d, n) == Slice(d, n, Len(d))

RECURSIVE sum(_)
sum(s) == IF s = << >> THEN 0 ELSE Head(s) + sum(Tail(s))

----------------------------------------------------------------------------
(* The frame decoder.                                                      *)

checkParity1(d) ==
    LET parity == sum(Slice(d, 21, 28))
    IN  IF parity % 2 # At(d, 28)
        THEN Raise("Parity error decoding minutes")
        ELSE NoExc

checkParity2(d) ==
    LET parity == sum(Slice(d, 29, 35))
    IN  IF parity % 2 # At(d, 35)
        THEN Raise("Parity error parsing hours")
        ELSE NoExc

checkParity3(d) ==
    LET parity == sum(Slice(d, 36, 58))
    IN  IF parity % 2 # At(d, 58)
        THEN Raise("Parity error P3")
        ELSE NoExc

parseTz(d) ==
    LET cestFlag == At(d, 17)
        cetFlag  == At(d, 18)
    IN  IF cestFlag # 0 THEN [exc |-> NoExc, val |-> "CEST"]
        ELSE IF cetFlag # 0 THEN [exc |-> NoExc, val |-> "CET"]
        ELSE [exc |-> Raise("Could not parse timezone"), val |-> ""]

\* parseMinutes reading the field as pure binary
parseMinutes_Binary(d) ==
    At(d, 21) * 1 + At(d, 22) * 2 + At(d, 23) * 4 + At(d, 24) * 8
    + At(d, 25) * 16 + At(d, 26) * 32 + At(d, 27) * 64

parseMinutes(d) ==
    At(d, 21) * 1 + At(d, 22) * 2 + At(d, 23) * 4 + At(d, 24) * 8
    + At(d, 25) * 10 + At(d, 26) * 20 + At(d, 27) * 40

parseHours(d) ==
    At(d, 29) * 1 + At(d, 30) * 2 + At(d, 31) * 4 + At(d, 32) * 8
    + At(d, 33) * 10 + At(d, 34) * 20

parseDayOfMonth(d) ==
    At(d, 36) * 1 + At(d, 37) * 2 + At(d, 38) * 4 + At(d, 39) * 8
    + At(d, 40) * 10 + At(d, 41) * 20

days == << "Mon", "Tue", "Wed", "Thu", "Fri", "Sat", "Sun" >>

\* parseDayOfWeek testing day < 0: a sum of 0 reaches days[-1], Python's
\* last element
parseDayOfWeek_ZeroAccepted(d) ==
    LET day == At(d, 42) * 1 + At(d, 43) * 2 + At(d, 44) * 4
    IN  IF day < 0 \/ day > 7
        THEN [exc |-> Raise("Invalid day"), val |-> ""]
        ELSE [exc |-> NoExc, val |-> IF day = 0 THEN "Sun" ELSE At(days, day - 1)]

parseDayOfWeek(d) ==
    LET day == At(d, 42) * 1 + At(d, 43) * 2 + At(d, 44) * 4
    IN  IF day < 1 \/ day > 7
        THEN [exc |-> Raise("Invalid day"), val |-> ""]
        ELSE [exc |-> NoExc, val |-> At(days, day - 1)]

months == << "Jan", "Feb", "Mar", "Apr", "May", "Jun",
             "Jul", "Aug", "Sep", "Oct", "Nov", "Dec" >>

parseMonth(d) ==
    LET month == At(d, 45) * 1 + At(d, 46) * 2 + At(d, 47) * 4
                 + At(d, 48) * 8 + At(d, 49) * 10
    IN  IF month < 1 \/ month > 12
        THEN [exc |-> Raise("Invalid month"), val |-> ""]
        ELSE [exc |-> NoExc, val |-> At(months, month - 1)]

parseYear(d) ==
    At(d, 50) * 1 + At(d, 51) * 2 + At(d, 52) * 4 + At(d, 53) * 8
    + At(d, 54) * 10 + At(d, 55) * 20 + At(d, 56) * 40 + At(d, 57) * 80
    + 2000

\* the length test letting every buffer of 59 bits or more through
FrameReady_AtLeast(d) == Len(d) >= FrameLen

\* the length test that opens decodeCdf
FrameReady(d) == Len(d) = FrameLen

\* a decodeCdf call that ended by raising exc, having written no time line
Failed(exc) == [attempted |-> TRUE, exc |-> exc, printed |-> << >>]

\* decodeCdf with the hours parity checked before the minutes parity
decodeCdf_HoursFirst(d) ==
    IF ~FrameReady(d)
    THEN [attempted |-> FALSE, exc |-> NoExc, printed |-> << >>]
    ELSE
    IF checkParity2(d) # NoExc THEN Failed(checkParity2(d)) ELSE
    IF checkParity1(d) # NoExc THEN Failed(checkParity1(d)) ELSE
    IF checkParity3(d) # NoExc THEN Failed(checkParity3(d)) ELSE
    LET tz == parseTz(d) IN
    IF tz.exc # NoExc THEN Failed(tz.exc) ELSE
    LET m  == parseMinutes(d)
        h  == parseHours(d)
        dm == parseDayOfMonth(d)
        wd == parseDayOfWeek(d)
    IN
    IF wd.exc # NoExc THEN Failed(wd.exc) ELSE
    LET M == parseMonth(d) IN
    IF M.exc # NoExc THEN Failed(M.exc) ELSE
    LET y == parseYear(d) IN
    [attempted |-> TRUE, exc |-> NoExc,
     printed |-> << [wd |-> wd.val, d |-> dm, M |-> M.val, y |-> y,
                     h |-> h, m |-> m, s |-> 0, tz |-> tz.val] >>]

\* decodeCdf: attempted says whether the length test passed, exc is the
\* exception that left the call, printed the time lines written to stdout
decodeCdf(d) ==
    IF ~FrameReady(d)
    THEN [attempted |-> FALSE, exc |-> NoExc, printed |-> << >>]
    ELSE
    IF checkParity1(d) # NoExc THEN Failed(checkParity1(d)) ELSE
    IF checkParity2(d) # NoExc THEN Failed(checkParity2(d)) ELSE
    IF checkParity3(d) # NoExc THEN Failed(checkParity3(d)) ELSE
    LET tz == parseTz(d) IN
    IF tz.exc # NoExc THEN Failed(tz.exc) ELSE
    LET m  == parseMinutes(d)
        h  == parseHours(d)
        dm == parseDayOfMonth(d)
        wd == parseDayOfWeek(d)
    IN
    IF wd.exc # NoExc THEN Failed(wd.exc) ELSE
    LET M == parseMonth(d) IN
    IF M.exc # NoExc THEN Failed(M.exc) ELSE
    LET y == parseYear(d) IN
    [attempted |-> TRUE, exc |-> NoExc,
     printed |-> << [wd |-> wd.val, d |-> dm, M |-> M.val, y |-> y,
                     h |-> h, m |-> m, s |-> 0, tz |-> tz.val] >>]

----------------------------------------------------------------------------
(* The bit classifier and frame accumulator.                               *)

\* the start-of-sequence test with >= for >
IsSyncGap_AtLeast(value, length, rate) == value = 1 /\ length >= rate

\* value == 1 and length > self.sample_rate
IsSyncGap(value, length, rate) == value = 1 /\ length > rate

\* the bit threshold with >= for >
ClassifyBit_AtLeast(length, rate) == IF 20 * length >= 3 * rate THEN 1 ELSE 0

\* 1 if length > .15*self.sample_rate else 0.  The product is a double; for
\* every integer rate up to 200000 and every integer length the comparison
\* with it has the outcome of the exact comparison 20*length > 3*rate.
ClassifyBit(length, rate) == IF 20 * length > 3 * rate THEN 1 ELSE 0

\* handle_runlength: decoded is self.decoded when the call ends (normally or
\* by an exception of decodeCdf), exc the exception that left the call
handle_runlength(d, value, length, rate) ==
    LET d1  == IF IsSyncGap(value, length, rate) THEN << >> ELSE d
        d2  == IF value = 0 THEN Append(d1, ClassifyBit(length, rate)) ELSE d1
        dec == decodeCdf(d2)
    IN  [decoded |-> d2, exc |-> dec.exc, attempted |-> dec.attempted,
         printed |-> dec.printed]

\* the history entry of one handle_runlength invocation
Invocation(d, value, length, h) ==
    [value |-> value, length |-> length, before |-> d, after |-> h.decoded,
     exc |-> h.exc, attempted |-> h.attempted, printed |-> h.printed]

----------------------------------------------------------------------------
(* The run-length segmenter.                                               *)

\* buf.index(x, start): the first position >= start holding x, or the
\* ValueError list.index raises when there is none
ListIndex(buf, x, start) ==
    LET hits == { i \in start .. Len(buf) - 1 : At(buf, i) = x }
    IN  IF hits = { }
        THEN [exc |-> Raise("x is not in list"), pos |-> -1]
        ELSE [exc |-> NoExc, pos |-> CHOOSE i \in hits : \A j \in hits : i <= j]

\* the try statement narrowed to the list.index call: an exception of
\* handle_runlength is not caught
Caught_IndexOnly(exc) == exc.type = "ValueError" /\ exc.msg = "x is not in list"

\* the loop without its try statement: nothing is caught
Caught_Nothing(exc) == FALSE

\* except ValueError
Caught(exc) == exc.type = "ValueError"

\* runlength_encode returns toRemove from its except clause, or is left by
\* an exception the clause does not catch
Leave(exc, sl, d, start_pos, toRemove, log) ==
    [ret |-> IF Caught(exc) THEN toRemove ELSE -1,
     exc |-> IF Caught(exc) THEN NoExc ELSE exc,
     start_level |-> sl, decoded |-> d, start_pos |-> start_pos, log |-> log]

\* the while True loop of runlength_encode, one iteration per unfolding
RECURSIVE Loop(_, _, _, _, _, _, _)
Loop(buf, sl, d, rate, start_pos, toRemove, log) ==
    LET value == IF sl = 1 THEN 0 ELSE 1
        found == ListIndex(buf, sl, start_pos)
    IN  IF found.exc # NoExc
        THEN Leave(found.exc, sl, d, start_pos, toRemove, log)
        ELSE LET pos == found.pos
                 h   == handle_runlength(d, value, pos - start_pos, rate)
                 inv == Invocation(d, value, pos - start_pos, h)
             IN  IF h.exc # NoExc
                 THEN Leave(h.exc, sl, h.decoded, start_pos, toRemove,
                            Append(log, inv))
                 ELSE Loop(buf, value, h.decoded, rate, pos, toRemove + pos,
                           Append(log, inv))

runlength_encode(buf, sl, d, rate) == Loop(buf, sl, d, rate, 0, 0, << >>)

----------------------------------------------------------------------------
(* Frames and samples the model draws its inputs from.                     *)

\* Wed 4 Nov 2026 08:38 CET, every check passing
ValidFrame ==
    << 0,0,0,0,0, 0,0,0,0,0, 0,0,0,0,0, 0,0,0,1,0,
       1,0,0,0,1, 1,1,0,1,0, 0,0,1,0,0, 1,0,0,1,0,
       0,0,1,1,0, 1,0,0,0,1, 0,1,1,0,0, 1,0,0,0 >>

\* the frame of the comment in decoder.__init__
RefFrame ==
    << 0,0,0,0,1, 1,1,0,0,0, 1,0,1,1,1, 0,0,1,0,0,
       1,1,1,0,0, 0,0,1,1,0, 0,0,0,0,0, 0,1,0,0,1,
       0,1,0,1,0, 1,0,0,1,0, 0,0,0,0,0, 1,0,0,1 >>

BaseFrames == { ValidFrame, RefFrame }

Positions == 0 .. FrameLen - 1

\* frame f with the bits at the positions of S inverted
Flip(f, S) == [ i \in 1 .. Len(f) |-> IF (i - 1) \in S THEN 1 - f[i] ELSE f[i] ]

RECURSIVE FlipSets(_)
FlipSets(k) ==
    IF k = 0 THEN { { } }
    ELSE LET prev == FlipSets(k - 1)
         IN  prev \cup { S \cup { i } : S \in prev, i \in Positions }

\* every frame within MaxFlips bits of a base frame
Frames == { Flip(f, S) : f \in BaseFrames, S \in FlipSets(MaxFlips) }

\* frames whose decoding ends in each way decodeCdf can end: success, the
\* three parity errors, the timezone, weekday and month errors
StreamFrames ==
    { ValidFrame, RefFrame, Flip(ValidFrame, {28}), Flip(ValidFrame, {35}),
      Flip(ValidFrame, {18}), Flip(ValidFrame, {42, 43}),
      Flip(ValidFrame, {46, 47}) }

\* the frame of the comment in decoder.__init__ as the specification prints
\* it: one 0 of bits 29..35 and one 0 of bits 49..54 are missing
ListedFrame ==
    << 0,0,0,0,1, 1,1,0,0,0, 1,0,1,1,1, 0,0,1,0,0,
       1,1,1,0,0, 0,0,1,1,0, 0,0,0,0,0, 1,0,0,1,0,
       1,0,1,0,1, 0,0,1,0,0, 0,0,0,1,0, 0,1 >>

\* f without the bit at position p
Delete(f, p) == Slice(f, 0, p) \o SliceFrom(f, p + 1)

\* f with bit b put in front of position p
Insert(f, p, b) == Slice(f, 0, p) \o << b >> \o SliceFrom(f, p)

\* values of self.decoded around the frame of the comment: the frame with
\* one bit inverted, with one or two bits left out, with one bit put in
NearRefFrames ==
    LET less1 == { Delete(RefFrame, p) : p \in Positions }
        less2 == { Delete(f, p) : f \in less1, p \in 0 .. FrameLen - 2 }
        more1 == { Insert(RefFrame, p, b) : p \in 0 .. FrameLen, b \in {0, 1} }
    IN  { RefFrame } \cup { Flip(RefFrame, {p}) : p \in Positions }
          \cup less1 \cup less2 \cup more1

\* bit buffers at the start of a behaviour: empty as decoder.__init__ leaves
\* it, or one bit short of a frame
StartBuffers == { << >> } \cup { Slice(f, 0, FrameLen - 1) : f \in StreamFrames }

Ones(n) == [ i \in 1 .. n |-> 1 ]

RECURSIVE Samples(_)
Samples(n) ==
    IF n = 0 THEN { << >> }
    ELSE { Append(s, b) : s \in Samples(n - 1), b \in {0, 1} }

\* what one receive() may return: every sample sequence of 1 .. MaxChunk
\* samples, and a carrier gap one sample longer than a second
Chunks(rate) ==
    UNION { Samples(n) : n \in 1 .. MaxChunk } \cup { Ones(rate + 1) }

NoCall ==
    [called |-> FALSE, buf |-> << >>, start_level |-> 0, decoded |-> << >>,
     ret |-> 0, start_pos |-> 0, log |-> << >>]

----------------------------------------------------------------------------
(* The streaming specification: listen().                                  *)

Init ==
    /\ sample_rate = StreamRate
    /\ network_buf = << >>
    /\ start_level = 0
    /\ decoded \in StartBuffers
    /\ crashed = FALSE
    /\ calls = 0
    /\ delivered = << >>
    /\ decoded0 = decoded
    /\ runs = << >>
    /\ last = NoCall
    /\ outcome = << >>
    /\ pc = "idle"

\* one iteration of the loop of listen: receive, append to network_buf,
\* runlength_encode, drop the consumed samples
Listen(chunk) ==
    /\ ~crashed
    /\ calls < MaxCalls
    /\ LET buf == network_buf \o chunk
           r   == runlength_encode(buf, start_level, decoded, sample_rate)
       IN  /\ start_level' = r.start_level
           /\ decoded' = r.decoded
           /\ crashed' = (r.exc # NoExc)
           /\ network_buf' = IF r.exc # NoExc THEN buf ELSE SliceFrom(buf, r.ret)
           /\ runs' = runs \o r.log
           /\ last' = [called |-> TRUE, buf |-> buf, start_level |-> start_level,
                       decoded |-> decoded, ret |-> r.ret,
                       start_pos |-> r.start_pos, log |-> r.log]
    /\ calls' = calls + 1
    /\ delivered' = delivered \o chunk
    /\ UNCHANGED << sample_rate, decoded0, outcome, pc >>

Next == \E chunk \in Chunks(sample_rate) : Listen(chunk)

Spec == Init /\ [][Next]_vars

----------------------------------------------------------------------------
(* The classifier specification: handle_runlength called with every run.   *)

InitHandle ==
    /\ sample_rate \in 1 .. MaxRate
    /\ network_buf = << >>
    /\ start_level = 0
    /\ decoded \in StartBuffers
    /\ crashed = FALSE
    /\ calls = 0
    /\ delivered = << >>
    /\ decoded0 = decoded
    /\ runs = << >>
    /\ last = NoCall
    /\ outcome = << >>
    /\ pc = "idle"

Handle(value, length) ==
    /\ calls < MaxHandleCalls
    /\ LET h == handle_runlength(decoded, value, length, sample_rate)
       IN  /\ decoded' = h.decoded
           /\ runs' = Append(runs, Invocation(decoded, value, length, h))
    /\ calls' = calls + 1
    /\ UNCHANGED << sample_rate, network_buf, start_level, crashed, delivered,
                    decoded0, last, outcome, pc >>

NextHandle ==
    \E value \in {0, 1}, length \in 0 .. sample_rate + 1 : Handle(value, length)

SpecHandle == InitHandle /\ [][NextHandle]_vars

----------------------------------------------------------------------------
(* The decoder specification: decodeCdf called on every frame of Frames.   *)

InitDecode ==
    /\ sample_rate = StreamRate
    /\ network_buf = << >>
    /\ start_level = 0
    /\ decoded \in Frames
    /\ crashed = FALSE
    /\ calls = 0
    /\ delivered = << >>
    /\ decoded0 = decoded
    /\ runs = << >>
    /\ last = NoCall
    /\ outcome = << >>
    /\ pc = "idle"

\* a decodeCdf that takes the frame out of the buffer as it decodes it
Decode_Consuming ==
    /\ calls < MaxDecodeCalls
    /\ outcome' = Append(outcome, decodeCdf(decoded))
    /\ decoded' = << >>
    /\ calls' = calls + 1
    /\ UNCHANGED << sample_rate, network_buf, start_level, crashed,
                    delivered, decoded0, runs, last, pc >>

\* decodeCdf on self.decoded: it and the functions it calls only read the
\* buffer (slices are copies) and assign no attribute of the decoder

Decode ==
    /\ calls < MaxDecodeCalls
    /\ outcome' = Append(outcome, decodeCdf(decoded))
    /\ calls' = calls + 1
    /\ UNCHANGED << sample_rate, network_buf, start_level, decoded, crashed,
                    delivered, decoded0, runs, last, pc >>

NextDecode == Decode

SpecDecode == InitDecode /\ [][NextDecode]_vars

----------------------------------------------------------------------------
(* decodeCdf called on bit buffers of 57 to 60 bits.                        *)

InitListed ==
    /\ sample_rate = StreamRate
    /\ network_buf = << >>
    /\ start_level = 0
    /\ decoded \in NearRefFrames
    /\ crashed = FALSE
    /\ calls = 0
    /\ delivered = << >>
    /\ decoded0 = decoded
    /\ runs = << >>
    /\ last = NoCall
    /\ outcome = << >>
    /\ pc = "idle"

NextListed == Decode

SpecListed == InitListed /\ [][NextListed]_vars

----------------------------------------------------------------------------
(* One runlength_encode call followed iteration by iteration.  last holds  *)
(* the locals of the call: start_pos, and toRemove in its field ret.       *)

\* the buffers the call is made on
LoopBuffers == UNION { Samples(n) : n \in 0 .. MaxBuf }

InitLoop ==
    /\ sample_rate = StreamRate
    /\ network_buf \in LoopBuffers
    /\ start_level \in {0, 1}
    /\ decoded \in StartBuffers
    /\ crashed = FALSE
    /\ calls = 0
    /\ delivered = network_buf
    /\ decoded0 = decoded
    /\ runs = << >>
    /\ last = [called |-> FALSE, buf |-> network_buf,
               start_level |-> start_level, decoded |-> decoded, ret |-> 0,
               start_pos |-> 0, log |-> << >>]
    /\ outcome = << >>
    /\ pc = "loop"

\* how the except clause leaves the call: return toRemove, or the exception
\* goes on to the caller
Exit(exc) ==
    /\ pc' = IF Caught(exc) THEN "returned" ELSE "raised"
    /\ crashed' = ~Caught(exc)

\* an iteration in which index finds no sample of start_level
NeedMoreData ==
    /\ pc = "loop"
    /\ LET found == ListIndex(network_buf, start_level, last.start_pos)
       IN  /\ found.exc # NoExc
           /\ Exit(found.exc)
    /\ last' = [last EXCEPT !.called = TRUE]
    /\ UNCHANGED << sample_rate, network_buf, start_level, decoded, calls,
                    delivered, decoded0, runs, outcome >>

\* an iteration in which a run is found and handle_runlength returns
RunHandled ==
    /\ pc = "loop"
    /\ LET value == IF start_level = 1 THEN 0 ELSE 1
           found == ListIndex(network_buf, start_level, last.start_pos)
           pos   == found.pos
           h     == handle_runlength(decoded, value, pos - last.start_pos,
                                     sample_rate)
           inv   == Invocation(decoded, value, pos - last.start_pos, h)
       IN  /\ found.exc = NoExc
           /\ h.exc = NoExc
           /\ decoded' = h.decoded
           /\ start_level' = value
           /\ runs' = Append(runs, inv)
           /\ last' = [last EXCEPT !.start_pos = pos, !.ret = @ + pos,
                                   !.log = Append(@, inv)]
    /\ calls' = calls + 1
    /\ UNCHANGED << sample_rate, network_buf, crashed, delivered, decoded0,
                    outcome, pc >>

\* an iteration in which a run is found and handle_runlength raises
RunFailed ==
    /\ pc = "loop"
    /\ LET value == IF start_level = 1 THEN 0 ELSE 1
           found == ListIndex(network_buf, start_level, last.start_pos)
           pos   == found.pos
           h     == handle_runlength(decoded, value, pos - last.start_pos,
                                     sample_rate)
           inv   == Invocation(decoded, value, pos - last.start_pos, h)
       IN  /\ found.exc = NoExc
           /\ h.exc # NoExc
           /\ decoded' = h.decoded
           /\ runs' = Append(runs, inv)
           /\ last' = [last EXCEPT !.called = TRUE, !.log = Append(@, inv)]
           /\ Exit(h.exc)
    /\ calls' = calls + 1
    /\ UNCHANGED << sample_rate, network_buf, start_level, delivered,
                    decoded0, outcome >>

NextLoop == NeedMoreData \/ RunHandled \/ RunFailed

SpecLoop == InitLoop /\ [][NextLoop]_vars

\* the interpreter goes on executing the loop until the call is left
SpecLoopLive == SpecLoop /\ WF_vars(NextLoop)

----------------------------------------------------------------------------
(* Claims about the segmenter, checked under Spec.                         *)

\* the (level, length) pairs of a sequence of handle_runlength invocations
RunSeq(log) == [ i \in DOMAIN log |-> << log[i].value, log[i].length >> ]

\* C1: chunking independence.  Delivering a sample sequence in two chunks
\* (the caller keeping network_buf[consumed:]) hands handle_runlength the
\* same runs, and leaves the same bit buffer, as delivering the whole
\* sequence in one call from the same starting state.
C1_ChunkingIndependence ==
    calls = 2 =>
        LET whole == runlength_encode(delivered, 0, decoded0, sample_rate)
        IN  /\ RunSeq(runs) = RunSeq(whole.log)
            /\ decoded = whole.decoded

\* where the last run a call handled to completion ends in the buffer: the
\* lengths of those runs added up, 0 if there is none
RECURSIVE EndOfCompleted(_)
EndOfCompleted(log) ==
    IF log = << >> THEN 0
    ELSE (IF Head(log).exc = NoExc THEN Head(log).length ELSE 0)
         + EndOfCompleted(Tail(log))

\* C2: the count runlength_encode returns is the index of the first sample
\* of the trailing unterminated run (the end of the last run completed in
\* the call, 0 if none), so it never exceeds the length of the buffer.
C2_ConsumedIsRunBoundary ==
    last.called =>
        /\ last.ret = EndOfCompleted(last.log)
        /\ last.ret <= Len(last.buf)

Uniform(buf) == buf # << >> /\ \A i \in DOMAIN buf : buf[i] = buf[1]

\* C3: on a non-empty buffer whose samples all have one level,
\* runlength_encode returns 0 and calls handle_runlength not at all, so the
\* bit buffer and start_level are unchanged, in every segmenter state.
C3_UniformConsumesNothing ==
    (last.called /\ Uniform(last.buf)) =>
        /\ last.ret = 0
        /\ last.log = << >>
        /\ decoded = last.decoded
        /\ start_level = last.start_level

----------------------------------------------------------------------------
(* Claims about the pipeline as a whole, checked under Spec.               *)

\* invocation r handled a 1-run longer than sample_rate
SyncRun(r) == r.value = 1 /\ r.length > sample_rate

\* C4: a decode failure never stops the pipeline.  No exception leaves
\* runlength_encode; a call whose buffer holds the level the segmenter waits
\* for hands a run over, and the invocation after a failed decode does not
\* fail again; every 1-run longer than sample_rate empties the bit buffer
\* and the 0-run after it puts its bit at position 0, whether or not a
\* decode failed before.
C4_DecodeFailureDoesNotStop ==
    /\ ~crashed
    /\ last.called =>
          ((\E i \in DOMAIN last.buf : last.buf[i] = last.start_level)
              => last.log # << >>)
    /\ \A i \in DOMAIN runs :
          /\ (runs[i].exc # NoExc /\ i + 1 \in DOMAIN runs)
                => runs[i + 1].exc = NoExc
          /\ SyncRun(runs[i]) => runs[i].after = << >>
          /\ (SyncRun(runs[i]) /\ i + 1 \in DOMAIN runs)
                => /\ runs[i + 1].value = 0
                   /\ runs[i + 1].before = << >>
                   /\ Len(runs[i + 1].after) = 1

\* a decode failed, a later 1-run longer than sample_rate emptied the
\* buffer that held the failed frame, and the next 0-run put its bit at
\* position 0
C4_Witness ==
    /\ ~crashed
    /\ \E i, j \in DOMAIN runs :
          /\ i < j
          /\ runs[i].attempted /\ runs[i].exc # NoExc
          /\ SyncRun(runs[j])
          /\ Len(runs[j].before) >= FrameLen
          /\ runs[j].after = << >>
          /\ j + 1 \in DOMAIN runs
          /\ runs[j + 1].value = 0
          /\ Len(runs[j + 1].after) = 1

\* C5: a decode is attempted exactly once for each append that brings the
\* bit buffer to 59 bits: at no other length, and not again for the same
\* 59 bits while later runs that leave the buffer unchanged are handled.
C5_DecodeOncePerAppend ==
    \A i \in DOMAIN runs :
        runs[i].attempted <=>
            (runs[i].value = 0 /\ Len(runs[i].after) = FrameLen)

\* C6: missed sync.  Every 0-run appends a bit whatever the length of the
\* buffer, so it grows past 59 bits; no decode is attempted on a buffer of
\* more than 59 bits; a 1-run longer than sample_rate empties the buffer
\* before the next bit is appended, so the bit of the next 0-run is alone
\* in the buffer, at position 0.
C6_MissedSyncSelfHeals ==
    \A i \in DOMAIN runs :
        /\ (runs[i].value = 0)
              => /\ Len(runs[i].after) = Len(runs[i].before) + 1
                 /\ SubSeq(runs[i].after, 1, Len(runs[i].before)) = runs[i].before
        /\ Len(runs[i].after) > FrameLen => ~runs[i].attempted
        /\ SyncRun(runs[i]) => runs[i].after = << >>
        /\ i + 1 \in DOMAIN runs
              => /\ runs[i + 1].before = runs[i].after
                 /\ (SyncRun(runs[i]) /\ runs[i + 1].value = 0)
                       => runs[i + 1].after
                            = << ClassifyBit(runs[i + 1].length, sample_rate) >>

\* the buffer grew past 59 bits without a decode attempt, then a 1-run
\* longer than sample_rate emptied it and the next 0-run started a frame
C6_Witness ==
    \E i, j \in DOMAIN runs :
        /\ i < j
        /\ runs[i].value = 0
        /\ Len(runs[i].after) > FrameLen
        /\ ~runs[i].attempted
        /\ SyncRun(runs[j])
        /\ Len(runs[j].before) > FrameLen
        /\ runs[j].after = << >>
        /\ j + 1 \in DOMAIN runs
        /\ runs[j + 1].value = 0
        /\ Len(runs[j + 1].after) = 1

----------------------------------------------------------------------------
(* Claims about the classifier, checked under SpecHandle.                  *)

\* C7: handle_runlength(1, length) empties the bit buffer when
\* length > sample_rate and leaves it unchanged when length <= sample_rate
\* (sample_rate + 1 resets, sample_rate does not); a 1-run appends no bit.
C7_OneRunEffect ==
    \A i \in DOMAIN runs :
        runs[i].value = 1 =>
            /\ runs[i].length > sample_rate => runs[i].after = << >>
            /\ runs[i].length <= sample_rate => runs[i].after = runs[i].before

\* a 1-run of sample_rate + 1 samples emptied a buffer that held bits
C7_Witness ==
    \E i \in DOMAIN runs :
        /\ runs[i].value = 1
        /\ runs[i].length = sample_rate + 1
        /\ runs[i].before # << >>
        /\ runs[i].after = << >>

\* floor(0.15 * rate)
Threshold(rate) == (15 * rate) \div 100

\* C8: handle_runlength(0, length) appends exactly one bit and changes no
\* earlier position; the bit is 1 exactly when length > 0.15 * sample_rate,
\* so floor(0.15 * sample_rate) samples give 0 and one sample more gives 1.
C8_ZeroRunClassification ==
    \A i \in DOMAIN runs :
        runs[i].value = 0 =>
            LET n   == Len(runs[i].before)
                bit == runs[i].after[n + 1]
            IN  /\ Len(runs[i].after) = n + 1
                /\ \A k \in 1 .. n : runs[i].after[k] = runs[i].before[k]
                /\ bit \in {0, 1}
                /\ bit = 1 <=> 100 * runs[i].length > 15 * sample_rate
                /\ runs[i].length = Threshold(sample_rate) => bit = 0
                /\ runs[i].length = Threshold(sample_rate) + 1 => bit = 1

\* at a rate where 0.15 * sample_rate is a whole number of samples, a 0-run
\* of that many samples appended 0 to a buffer that held bits
C8_Witness ==
    \E i \in DOMAIN runs :
        /\ runs[i].value = 0
        /\ 100 * runs[i].length = 15 * sample_rate
        /\ runs[i].length > 0
        /\ runs[i].before # << >>
        /\ runs[i].after = Append(runs[i].before, 0)

----------------------------------------------------------------------------
(* Claims about the decoder, checked under SpecDecode.                     *)

\* C9: every time line decodeCdf writes is within range: year 2000..2099,
\* month 1..12, day 1..31, hour 0..23, minute 0..59, second 0, timezone CET
\* or CEST.
C9_RecordInRange ==
    \A i \in DOMAIN outcome : \A j \in DOMAIN outcome[i].printed :
        LET t == outcome[i].printed[j]
        IN  /\ t.y \in 2000 .. 2099
            /\ \E k \in 1 .. 12 : months[k] = t.M
            /\ t.d \in 1 .. 31
            /\ t.h \in 0 .. 23
            /\ t.m \in 0 .. 59
            /\ t.s = 0
            /\ t.tz \in {"CET", "CEST"}

\* the number of 1 bits of d at the positions lo .. hi
RECURSIVE Ones_In(_, _, _)
Ones_In(d, lo, hi) ==
    IF lo > hi THEN 0 ELSE (IF d[lo + 1] = 1 THEN 1 ELSE 0) + Ones_In(d, lo + 1, hi)

\* the message of the first check of the documented order that frame d
\* fails, "" when it passes them all
FirstFailure(d) ==
    IF Ones_In(d, 21, 27) % 2 # d[29] THEN "Parity error decoding minutes"
    ELSE IF Ones_In(d, 29, 34) % 2 # d[36] THEN "Parity error parsing hours"
    ELSE IF Ones_In(d, 36, 57) % 2 # d[59] THEN "Parity error P3"
    ELSE IF d[18] = 0 /\ d[19] = 0 THEN "Could not parse timezone"
    ELSE IF d[43] = 0 /\ d[44] = 0 /\ d[45] = 0 THEN "Invalid day"
    ELSE IF d[46] + 2 * d[47] + 4 * d[48] + 8 * d[49] + 10 * d[50] \notin 1 .. 12
         THEN "Invalid month"
    ELSE ""

\* C10: decodeCdf checks minutes parity, hours parity, date parity,
\* timezone, weekday, month in this order and raises the error of the first
\* check that fails, writing no time line; a frame that decodes raises the
\* minutes parity error, and nothing else, once its bit 28 is inverted.
C10_FirstFailureReported ==
    \A i \in DOMAIN outcome :
        /\ outcome[i].attempted
        /\ outcome[i].exc.msg = FirstFailure(decoded)
        /\ outcome[i].exc # NoExc => outcome[i].printed = << >>
        /\ outcome[i].exc = NoExc =>
              /\ Len(outcome[i].printed) = 1
              /\ decodeCdf(Flip(decoded, {28}))
                    = Failed(Raise("Parity error decoding minutes"))

\* a frame failing the minutes parity and the hours parity was decoded and
\* the minutes parity error was raised
C10_Witness ==
    /\ outcome # << >>
    /\ Ones_In(decoded, 21, 27) % 2 # decoded[29]
    /\ Ones_In(decoded, 29, 34) % 2 # decoded[36]
    /\ outcome[1].exc = Raise("Parity error decoding minutes")
    /\ outcome[1].printed = << >>

\* the three parity checks pass on frame d
ParityPasses(d) ==
    /\ Ones_In(d, 21, 27) % 2 = d[29]
    /\ Ones_In(d, 29, 34) % 2 = d[36]
    /\ Ones_In(d, 36, 57) % 2 = d[59]

\* C11: the timezone needs exactly one flag.  On a frame that passes the
\* three parity checks the timezone is CEST when bit 17 = 1 and bit 18 = 0,
\* CET when bit 17 = 0 and bit 18 = 1, and when both bits are 0 or both
\* are 1 decodeCdf raises the timezone error and writes no time line.
C11_TimezoneExactlyOneFlag ==
    \A i \in DOMAIN outcome :
        ParityPasses(decoded) =>
            LET b17 == decoded[18]
                b18 == decoded[19]
                tzError == Raise("Could not parse timezone")
            IN  /\ (b17 = 1 /\ b18 = 0)
                      => /\ outcome[i].exc # tzError
                         /\ \A j \in DOMAIN outcome[i].printed :
                               outcome[i].printed[j].tz = "CEST"
                /\ (b17 = 0 /\ b18 = 1)
                      => /\ outcome[i].exc # tzError
                         /\ \A j \in DOMAIN outcome[i].printed :
                               outcome[i].printed[j].tz = "CET"
                /\ (b17 = b18)
                      => /\ outcome[i].exc = tzError
                         /\ outcome[i].printed = << >>

\* the bits of d from position lo on, weighted by w and added up
RECURSIVE Weighted(_, _, _)
Weighted(d, lo, w) ==
    IF w = << >> THEN 0 ELSE d[lo + 1] * Head(w) + Weighted(d, lo + 1, Tail(w))

\* the positions lo .. hi are the only ones whose bit changes field(d)
OnlyReads(field(_), d, lo, hi) ==
    \A p \in Positions \ (lo .. hi) : field(Flip(d, {p})) = field(d)

\* C12: on every frame that passes validation each field of the time line
\* is the BCD weighted sum of its bits: minute of bits 21..27, hour of
\* 29..34, day of 36..41, weekday of 42..44, month of 45..49, year 2000 +
\* bits 50..57; no bit outside a field's range influences the field (the
\* frame stays in the buffer, so this part is evaluated after the first
\* call only).
C12_FieldsAreWeightedSums ==
  /\ \A i \in DOMAIN outcome : \A j \in DOMAIN outcome[i].printed :
        LET t == outcome[i].printed[j]
        IN  /\ t.m = Weighted(decoded, 21, << 1, 2, 4, 8, 10, 20, 40 >>)
            /\ t.h = Weighted(decoded, 29, << 1, 2, 4, 8, 10, 20 >>)
            /\ t.d = Weighted(decoded, 36, << 1, 2, 4, 8, 10, 20 >>)
            /\ t.wd = << "Mon", "Tue", "Wed", "Thu", "Fri", "Sat", "Sun" >>
                          [Weighted(decoded, 42, << 1, 2, 4 >>)]
            /\ t.M = << "Jan", "Feb", "Mar", "Apr", "May", "Jun", "Jul",
                        "Aug", "Sep", "Oct", "Nov", "Dec" >>
                          [Weighted(decoded, 45, << 1, 2, 4, 8, 10 >>)]
            /\ t.y = 2000 + Weighted(decoded, 50, << 1, 2, 4, 8, 10, 20, 40, 80 >>)
  /\ (Len(outcome) = 1 /\ outcome[1].printed # << >>) =>
        /\ OnlyReads(parseMinutes, decoded, 21, 27)
        /\ OnlyReads(parseHours, decoded, 29, 34)
        /\ OnlyReads(parseDayOfMonth, decoded, 36, 41)
        /\ OnlyReads(parseDayOfWeek, decoded, 42, 44)
        /\ OnlyReads(parseMonth, decoded, 45, 49)
        /\ OnlyReads(parseYear, decoded, 50, 57)

\* a time line was written whose minute, month and year each have a tens
\* bit set
C12_Witness ==
    \E i \in DOMAIN outcome : \E j \in DOMAIN outcome[i].printed :
        LET t == outcome[i].printed[j]
        IN  /\ t.m >= 10
            /\ t.M \in {"Oct", "Nov", "Dec"}
            /\ t.y >= 2010
            /\ decoded[26] + decoded[27] + decoded[28] >= 1

\* the checks decodeCdf makes before the weekday pass on frame d
ReachesWeekday(d) == ParityPasses(d) /\ (d[18] = 1 \/ d[19] = 1)

\* C13: the weekday sums 1..7 of bits 42..44 map one-to-one onto Mon, Tue,
\* Wed, Thu, Fri, Sat, Sun in this order; the sum 0 makes decodeCdf raise
\* the invalid-weekday error and write no time line.
C13_WeekdayMapping ==
    /\ \A a, b \in 1 .. 7 : a # b => At(days, a - 1) # At(days, b - 1)
    /\ \A i \in DOMAIN outcome :
          ReachesWeekday(decoded) =>
              LET day == decoded[43] + 2 * decoded[44] + 4 * decoded[45]
              IN  /\ day = 0 => /\ outcome[i].exc = Raise("Invalid day")
                                /\ outcome[i].printed = << >>
                  /\ day # 0 => /\ outcome[i].exc # Raise("Invalid day")
                                /\ parseDayOfWeek(decoded).val =
                                      CASE day = 1 -> "Mon" [] day = 2 -> "Tue"
                                        [] day = 3 -> "Wed" [] day = 4 -> "Thu"
                                        [] day = 5 -> "Fri" [] day = 6 -> "Sat"
                                        [] day = 7 -> "Sun"
                                /\ \A j \in DOMAIN outcome[i].printed :
                                      outcome[i].printed[j].wd
                                        = parseDayOfWeek(decoded).val

\* a frame that passes the parity and timezone checks with weekday bits
\* 0,0,0 was decoded and the invalid-weekday error raised
C13_Witness ==
    /\ outcome # << >>
    /\ ReachesWeekday(decoded)
    /\ decoded[43] = 0 /\ decoded[44] = 0 /\ decoded[45] = 0
    /\ outcome[1].exc = Raise("Invalid day")

-----------------------------------------------------------------------------
(* Claims about the runs the segmenter hands over, checked under Spec.      *)

\* C14: every run passed to handle_runlength has length >= 1, the first run
\* of a new decoder and the first run of each later call included.
C14_RunsArePositive ==
    \A i \in DOMAIN runs : runs[i].length >= 1

\* C15: consecutive runs passed to handle_runlength alternate level over
\* the whole life of the decoder, across calls and across failed decodes.
C15_RunsAlternate ==
    \A i \in DOMAIN runs :
        (i + 1) \in DOMAIN runs => runs[i + 1].value # runs[i].value

\* the bits of d that invocation r appended
Appended(r) == Len(r.after) - Len(r.before)

\* C19: a run whose handling ends in a failing decode is handled once.  When
\* the last invocation of a call failed, start_level is toggled to the level
\* of that run and the returned count reaches the end of the run; the next
\* invocation, in whichever call, is for the opposite level, so the bits a
\* failing 0-run and its successor append are never two bits of one run.
C19_FailedRunHandledOnce ==
    /\ (last.called /\ last.log # << >>) =>
          LET r == last.log[Len(last.log)]
          IN  r.exc # NoExc =>
                  /\ start_level = r.value
                  /\ last.ret >= last.start_pos + r.length
    /\ \A i \in DOMAIN runs :
          (runs[i].exc # NoExc /\ (i + 1) \in DOMAIN runs) =>
              ~ /\ runs[i + 1].value = runs[i].value
                /\ runs[i + 1].length = runs[i].length
                /\ Appended(runs[i]) + Appended(runs[i + 1]) = 2

-----------------------------------------------------------------------------
(* Claims about decodeCdf as an operation, checked under SpecDecode.        *)

-----------------------------------------------------------------------------
(* Claims about the reference frame, checked under SpecListed.              *)

\* the errors decodeCdf raises
NamedErrors ==
    { Raise("Parity error decoding minutes"), Raise("Parity error parsing hours"),
      Raise("Parity error P3"), Raise("Could not parse timezone"),
      Raise("Invalid day"), Raise("Invalid month") }

\* a decodeCdf call that printed no time line and raised nothing
Neither(o) == o.printed = << >> /\ o.exc = NoExc

\* C17 as stated: decoding the reference frame as the specification lists
\* it ends with a time record or with a named validation error, never with
\* neither.
C17_ListedFrameHasOutcome ==
    \A i \in DOMAIN outcome :
        decoded = ListedFrame =>
            \/ outcome[i].printed # << >>
            \/ outcome[i].exc \in NamedErrors

\* C17 amended: the frame as listed has 57 bits, and decodeCdf returns from
\* its length test on every buffer that is not 59 bits long, with no record
\* and no error; a 59-bit buffer ends with exactly one of a record and a
\* named error; the 59-bit frame of the code's comment, from which the
\* listed one differs by two missing bits, prints Tue 29 Sep 2020 00:43:00
\* CEST.
C17_OnlyFullFramesHaveOutcome ==
    /\ ListedFrame \in NearRefFrames /\ Len(ListedFrame) = 57
    /\ \A i \in DOMAIN outcome :
          LET o == outcome[i]
          IN  /\ o.attempted <=> Len(decoded) = FrameLen
              /\ Len(decoded) # FrameLen => Neither(o)
              /\ Len(decoded) = FrameLen =>
                    /\ ~Neither(o)
                    /\ o.printed = << >> \/ o.exc = NoExc
                    /\ o.exc # NoExc => o.exc \in NamedErrors
              /\ decoded = ListedFrame => Neither(o)
              /\ decoded = RefFrame =>
                    o.printed = << [wd |-> "Tue", d |-> 29, M |-> "Sep",
                                    y |-> 2020, h |-> 0, m |-> 43, s |-> 0,
                                    tz |-> "CEST"] >>

\* the listed frame was handed to decodeCdf, which returned at the length
\* test
C17_Witness ==
    /\ decoded = ListedFrame
    /\ outcome # << >>
    /\ ~outcome[1].attempted
    /\ Neither(outcome[1])

-----------------------------------------------------------------------------
(* Claims about the loop of runlength_encode, checked under SpecLoopLive.   *)

\* C18: every runlength_encode call terminates, on every buffer and in
\* every segmenter state.  The loop is left after finitely many iterations,
\* by the return of the except clause and never by an exception; the call
\* has then handed over at most one run per sample of the buffer and
\* returns a count that is not negative.
C18_CallTerminates ==
    <>[](/\ pc = "returned"
         /\ ~crashed
         /\ last.ret >= 0
         /\ Len(last.log) <= Len(network_buf))

\* a call returned for want of a sample after handing over four runs
C18_Witness ==
    /\ pc = "returned"
    /\ Len(last.log) >= 4
    /\ last.log[Len(last.log)].exc = NoExc

=============================================================================
